---- MODULE Spec2Model ----
(***************************************************************************)
(* Incremental Kotlin/dex development cycle of compileApp                  *)
(* (packages/uni-uts-v1/src/uvue/index.ts).                                *)
(*                                                                         *)
(* Paths are sequences of tokens ("index", ".kt", "/", ...); a file's      *)
(* content is a positive build stamp and 0 means that the file is missing. *)
(***************************************************************************)
EXTENDS Integers, Sequences, FiniteSets, TLC

\* ---------------------------------------------------------------- bounds
MaxCycles == 2      \* compileApp invocations explored

\* ----------------------------------------------------------------- paths
IndexKt == <<"index", ".kt">>
AKt == <<"a", ".kt">>
KotlinFiles == {IndexKt, AKt}

outputDir == <<"dist", "/", "dev">>

resolve(dir, file) == dir \o <<"/">> \o file

join(dir, name) == dir \o <<"/", name>>

\* path.resolve(outputDir, '../.kotlin'): a sibling of the output directory
\* (UNI_APP_X_CACHE_DIR is taken to be unset).
kotlinDir(out) == SubSeq(out, 1, Len(out) - 1) \o <<".kotlin">>

kotlinSrcDir(kdir) == resolve(kdir, <<"src">>)

kotlinDexDir(kdir) == resolve(kdir, <<"dex">>)

kotlinRootOutDir == kotlinDir(outputDir)

kotlinDexOutDir == kotlinDexDir(kotlinRootOutDir)

kotlinSrcOutDir == kotlinSrcDir(kotlinRootOutDir)

\* String.prototype.replace('.kt', ''): only the first occurrence is removed.
RECURSIVE replaceKt(_)
replaceKt(p) ==
  IF p = <<>> THEN <<>>
  ELSE IF Head(p) = ".kt" THEN Tail(p)
  ELSE <<Head(p)>> \o replaceKt(Tail(p))

resolveDexByKotlinFile(dexDir, kotlinFile) ==
  join(replaceKt(resolve(dexDir, kotlinFile)), "classes.dex")

\* The artifact name the compiler driver reports for a source file of inputDir
\* (relative to dexOutDir).
DexName(kotlinFile) == join(replaceKt(kotlinFile), "classes.dex")

Relative(dir, p) == SubSeq(p, Len(dir) + 2, Len(p))

Range(s) == {s[i] : i \in 1..Len(s)}

\* the sequences over S that list no element twice
Orderings(S) ==
  {q \in UNION {[1..k -> S] : k \in 0..Cardinality(S)} :
     \A i, j \in 1..Len(q) : q[i] = q[j] => i = j}

Paths ==
  {resolveDexByKotlinFile(d, f) : d \in {kotlinDexOutDir, outputDir}, f \in KotlinFiles}
    \cup {resolve(kotlinSrcOutDir, f) : f \in KotlinFiles}

\* fs.existsSync
existsSync(disk, p) == p \in DOMAIN disk /\ disk[p] # 0

\* ----------------------------------------------------------------- state
VARIABLES
  fs,                  \* the disk: path -> content stamp, 0 = missing
  manifestFile,        \* TRUE iff <kotlinSrcOutDir>/.manifest.json exists
  manifest,            \* its content: relative Kotlin file -> token
  serverInstalled,     \* whether getCompilerServer finds 'uniapp-runextension'
  pc,                  \* position of compileApp
  cycle,               \* number of compileApp invocations so far
  result,              \* the transpiler's result object, mutated in place
  kotlinChangedFiles,  \* the change set of runKotlinDev
  response,            \* what compileDex resolved to
  waiting,             \* waiting.done: "undefined", "pending" or "resolved"
  errorLog,            \* TRUE iff console.error(msg) ran in this cycle
  outcome,             \* how the last compileApp invocation ended
  start,               \* disk, manifest and transpiler report when the cycle began
  prev,                \* chunks and change set of the invocation right before this
                       \* one, if it ended in DexSuccess or DexFailure
  dexQuery             \* one application of resolveDexByKotlinFile: its arguments
                       \* and, once it has returned, its value

vars == <<fs, manifestFile, manifest, serverInstalled, pc, cycle, result,
          kotlinChangedFiles, response, waiting, errorLog, outcome, start,
          prev, dexQuery>>

EmptyManifest == [f \in {} |-> 0]

Snapshot(disk, m) ==
  [fs |-> disk, manifest |-> m, manifestFile |-> manifestFile, kind |-> "none",
   changed |-> <<>>, recorded |-> FALSE]

NoResult == [filename |-> IndexKt, changed |-> <<>>, chunks |-> <<>>,
             kotlinc |-> FALSE, type |-> "none"]

NoResponse == [code |-> 0, data |-> FALSE, dexList |-> <<>>, msg |-> FALSE]

NoQuery == [kotlinDexOutDir |-> <<>>, kotlinFile |-> <<>>, dexFile |-> <<>>]

NoPrev == [success |-> FALSE, failure |-> FALSE, chunks |-> <<>>, files |-> {}]

Init ==
  /\ fs = [p \in Paths |-> 0]
  /\ manifestFile = FALSE
  /\ manifest = EmptyManifest
  /\ serverInstalled \in BOOLEAN
  /\ pc = "idle"
  /\ cycle = 0
  /\ result = NoResult
  /\ kotlinChangedFiles = <<>>
  /\ response = NoResponse
  /\ waiting = "undefined"
  /\ errorLog = FALSE
  /\ outcome = "none"
  /\ start = Snapshot(fs, manifest)
  /\ prev = NoPrev
  /\ dexQuery = NoQuery

\* -------------------------------------------------- manifest store (4.1)
readKotlinManifestJson == IF manifestFile THEN manifest ELSE EmptyManifest

\* mutant: only the first file of the list is rolled back
DeleteKeys_FirstOnly(m, files) ==
  [f \in (DOMAIN m) \ (IF files = <<>> THEN {} ELSE {Head(files)}) |-> m[f]]

\* mutant: only the last file of the list is rolled back
DeleteKeys_LastOnly(m, files) ==
  [f \in (DOMAIN m) \ (IF files = <<>> THEN {} ELSE {files[Len(files)]}) |-> m[f]]

\* mutant: the rollback empties the manifest
DeleteKeys_All(m, files) == EmptyManifest

\* mutant: the rollback leaves the manifest as it is
DeleteKeys_None(m, files) == m

\* delete manifest[file] for every file of the list
DeleteKeys(m, files) == [f \in (DOMAIN m) \ Range(files) |-> m[f]]

\* -------------------------------------------------------- transpiler (6)
\* In development mode the files the transpiler reports as changed are written
\* to the Kotlin source directory; with the split manifest enabled their
\* entries are recorded in .manifest.json.  (A production build writes to
\* .uniappx/android/src, which no development cycle reads.)
WriteSources(disk, changed, stamp) ==
  [p \in DOMAIN disk |->
     IF \E f \in Range(changed) : p = resolve(kotlinSrcOutDir, f)
     THEN stamp ELSE disk[p]]

RecordManifest(m, changed, stamp) ==
  [f \in (DOMAIN m) \cup Range(changed) |->
     IF f \in Range(changed) THEN stamp ELSE m[f]]

ResetCycle ==
  /\ kotlinChangedFiles' = <<>>
  /\ response' = NoResponse
  /\ waiting' = "undefined"
  /\ errorLog' = FALSE

\* mutant: a transpiler error is not looked at
Dispatch_IgnoresError(kind) ==
  CASE kind = "absent" -> "NoResult"
    [] kind = "prod" -> "ProductionBuild"
    [] OTHER -> "running"

\* compileApp, lines 113-125: what becomes of the transpiler's answer;
\* "running" stands for the call of runKotlinDev
Dispatch(kind) ==
  CASE kind = "absent" -> "NoResult"
    [] kind = "error" -> "SyntaxError"
    [] kind = "prod" -> "ProductionBuild"
    [] kind = "dev" -> "running"

\* compileApp, lines 111-126: bundle() and the dispatch on its result.
Bundle(kind, changed, chunks, splitManifest) ==
  /\ pc \in {"idle", "done"}
  /\ cycle < MaxCycles
  /\ cycle' = cycle + 1
  /\ prev' = IF pc = "done" /\ outcome = "DexSuccess"
               THEN [NoPrev EXCEPT !.success = TRUE, !.chunks = result.chunks]
             ELSE IF pc = "done" /\ outcome = "DexFailure"
               THEN [NoPrev EXCEPT !.failure = TRUE, !.chunks = result.chunks,
                                   !.files = {Relative(kotlinSrcOutDir, q) :
                                                q \in Range(kotlinChangedFiles)}]
             ELSE NoPrev
  /\ start' = [fs |-> fs, manifest |-> readKotlinManifestJson,
                manifestFile |-> manifestFile, kind |-> kind,
                changed |-> changed, recorded |-> splitManifest]
  /\ ResetCycle
  /\ UNCHANGED <<serverInstalled, dexQuery>>
  /\ IF kind = "dev"
     THEN /\ fs' = WriteSources(fs, changed, cycle + 1)
          /\ IF splitManifest
             THEN /\ manifestFile' = TRUE
                  /\ manifest' = RecordManifest(readKotlinManifestJson, changed, cycle + 1)
             ELSE UNCHANGED <<manifestFile, manifest>>
          /\ result' = [filename |-> IndexKt, changed |-> changed,
                        chunks |-> chunks, kotlinc |-> FALSE, type |-> "none"]
     ELSE /\ UNCHANGED <<fs, manifestFile, manifest>>
          /\ result' = NoResult
  /\ outcome' = Dispatch(kind)
  /\ pc' = IF Dispatch(kind) = "running" THEN "bundled" ELSE "done"

BundleStep ==
  \E kind \in {"absent", "error", "prod", "dev"} :
    \E changed \in Orderings(KotlinFiles) :
      \E chunks \in Orderings(KotlinFiles \ {IndexKt}) :
        \E splitManifest \in BOOLEAN :
          /\ kind # "dev" => changed = <<>> /\ chunks = <<>> /\ ~splitManifest
          /\ Bundle(kind, changed, chunks, splitManifest)


\* ------------------------------------------------ change set resolver (4.3)
unlinkSync(disk, p) == [disk EXCEPT ![p] = 0]

copySync(disk, from, to) == [disk EXCEPT ![to] = disk[from]]

\* mutant: a stale dex artifact is not deleted
UnlinkChanged_None(disk, changed, dexDir) == disk

\* lines 160-167: result.changed.map(...), the disk after the unlinks
RECURSIVE UnlinkChanged(_, _, _)
UnlinkChanged(disk, changed, dexDir) ==
  IF changed = <<>> THEN disk
  ELSE LET dexFile == resolveDexByKotlinFile(dexDir, Head(changed))
       IN UnlinkChanged(IF existsSync(disk, dexFile) THEN unlinkSync(disk, dexFile) ELSE disk,
                        Tail(changed), dexDir)

MapChanged(changed, srcDir) == [i \in 1..Len(changed) |-> resolve(srcDir, changed[i])]

\* mutant: a cached artifact is copied over the one in the output directory
RECURSIVE ForEachChunk_AlwaysCopies(_, _, _, _, _)
ForEachChunk_AlwaysCopies(acc, chunks, srcDir, dexDir, outDir) ==
  IF chunks = <<>> THEN acc
  ELSE
    LET chunk == Head(chunks)
        chunkFile == resolve(srcDir, chunk)
        dexFile == resolveDexByKotlinFile(dexDir, chunk)
        targetDexFile == resolveDexByKotlinFile(outDir, chunk)
        next ==
          IF chunkFile \in Range(acc.files) THEN acc
          ELSE IF existsSync(acc.fs, dexFile)
               THEN [acc EXCEPT !.fs = copySync(acc.fs, dexFile, targetDexFile)]
               ELSE [acc EXCEPT !.files = Append(acc.files, chunkFile)]
    IN ForEachChunk_AlwaysCopies(next, Tail(chunks), srcDir, dexDir, outDir)

\* mutant: a chunk is not compared with the files already in the change set
RECURSIVE ForEachChunk_NoIncludes(_, _, _, _, _)
ForEachChunk_NoIncludes(acc, chunks, srcDir, dexDir, outDir) ==
  IF chunks = <<>> THEN acc
  ELSE
    LET chunk == Head(chunks)
        chunkFile == resolve(srcDir, chunk)
        dexFile == resolveDexByKotlinFile(dexDir, chunk)
        targetDexFile == resolveDexByKotlinFile(outDir, chunk)
        next ==
          IF existsSync(acc.fs, dexFile)
          THEN IF ~existsSync(acc.fs, targetDexFile)
               THEN [acc EXCEPT !.fs = copySync(acc.fs, dexFile, targetDexFile)]
               ELSE acc
          ELSE [acc EXCEPT !.files = Append(acc.files, chunkFile)]
    IN ForEachChunk_NoIncludes(next, Tail(chunks), srcDir, dexDir, outDir)

\* lines 169-183: the forEach over ['index.kt', ...chunks]; acc = [files, fs]
RECURSIVE ForEachChunk(_, _, _, _, _)
ForEachChunk(acc, chunks, srcDir, dexDir, outDir) ==
  IF chunks = <<>> THEN acc
  ELSE
    LET chunk == Head(chunks)
        chunkFile == resolve(srcDir, chunk)
        dexFile == resolveDexByKotlinFile(dexDir, chunk)
        targetDexFile == resolveDexByKotlinFile(outDir, chunk)
        next ==
          IF chunkFile \in Range(acc.files) THEN acc
          ELSE IF existsSync(acc.fs, dexFile)
               THEN IF ~existsSync(acc.fs, targetDexFile)
                    THEN [acc EXCEPT !.fs = copySync(acc.fs, dexFile, targetDexFile)]
                    ELSE acc
               ELSE [acc EXCEPT !.files = Append(acc.files, chunkFile)]
    IN ForEachChunk(next, Tail(chunks), srcDir, dexDir, outDir)

\* mutant: every chunk not yet included is recompiled, cached or not
parseKotlinChangedFiles_IgnoresCache(res, disk, srcDir, dexDir, outDir) ==
  ForEachChunk([files |-> MapChanged(res.changed, srcDir),
                fs |-> UnlinkChanged(disk, res.changed, dexDir)],
               <<IndexKt>> \o res.chunks, srcDir, <<"nowhere">>, outDir)

\* mutant: the entry file 'index.kt' is not looked at, only the chunks
parseKotlinChangedFiles_ChunksOnly(res, disk, srcDir, dexDir, outDir) ==
  ForEachChunk([files |-> MapChanged(res.changed, srcDir),
                fs |-> UnlinkChanged(disk, res.changed, dexDir)],
               res.chunks, srcDir, dexDir, outDir)

\* mutant: the entry file 'index.kt' is looked at after the chunks
parseKotlinChangedFiles_IndexLast(res, disk, srcDir, dexDir, outDir) ==
  ForEachChunk([files |-> MapChanged(res.changed, srcDir),
                fs |-> UnlinkChanged(disk, res.changed, dexDir)],
               res.chunks \o <<IndexKt>>, srcDir, dexDir, outDir)

\* mutant: the stale artifact is deleted from the output directory as well
parseKotlinChangedFiles_UnlinksOutput(res, disk, srcDir, dexDir, outDir) ==
  ForEachChunk([files |-> MapChanged(res.changed, srcDir),
                fs |-> UnlinkChanged(UnlinkChanged(disk, res.changed, outDir),
                                     res.changed, dexDir)],
               <<IndexKt>> \o res.chunks, srcDir, dexDir, outDir)

parseKotlinChangedFiles(res, disk, srcDir, dexDir, outDir) ==
  ForEachChunk([files |-> MapChanged(res.changed, srcDir),
                fs |-> UnlinkChanged(disk, res.changed, dexDir)],
               <<IndexKt>> \o res.chunks, srcDir, dexDir, outDir)

kotlinMainFile == resolve(kotlinSrcOutDir, result.filename)

\* runKotlinDev, lines 203-214
ResolveChangeSet ==
  /\ pc = "bundled"
  /\ LET r == parseKotlinChangedFiles(result, fs, kotlinSrcOutDir, kotlinDexOutDir, outputDir)
     IN /\ kotlinChangedFiles' = r.files
        /\ fs' = r.fs
  /\ result' = [result EXCEPT !.type = "kotlin"]
  /\ pc' = "resolved"
  /\ UNCHANGED <<manifestFile, manifest, serverInstalled, dexQuery, cycle, response,
                 waiting, errorLog, outcome, start, prev>>

\* mutant: the change set is not checked
NeedsDex_IgnoresChangeSet == existsSync(fs, kotlinMainFile)

\* mutant: the flag is not set when the driver is called
CallCompileDex_NoFlag ==
  /\ pc = "resolved"
  /\ Len(kotlinChangedFiles) > 0 /\ existsSync(fs, kotlinMainFile)
  /\ serverInstalled
  /\ pc' = "compiling"
  /\ UNCHANGED <<fs, manifestFile, manifest, serverInstalled, dexQuery, cycle, result,
                 kotlinChangedFiles, response, waiting, errorLog, outcome,
                 start, prev>>

\* mutant: the entry file is not checked
NeedsDex_IgnoresMainFile == Len(kotlinChangedFiles) > 0

\* line 216
NeedsDex == Len(kotlinChangedFiles) > 0 /\ existsSync(fs, kotlinMainFile)

\* line 216 false, line 284
SkipCompile ==
  /\ pc = "resolved"
  /\ ~NeedsDex
  /\ pc' = "done"
  /\ outcome' = "Skipped"
  /\ UNCHANGED <<fs, manifestFile, manifest, serverInstalled, dexQuery, cycle, result,
                 kotlinChangedFiles, response, waiting, errorLog, start, prev>>

\* lines 217-222
ThrowNotInstalled ==
  /\ pc = "resolved"
  /\ NeedsDex
  /\ ~serverInstalled
  /\ pc' = "done"
  /\ outcome' = "ToolchainUnavailable"
  /\ UNCHANGED <<fs, manifestFile, manifest, serverInstalled, dexQuery, cycle, result,
                 kotlinChangedFiles, response, waiting, errorLog, start, prev>>

\* lines 223-257: the options are built, result.kotlinc is set and compileDex
\* is called
CallCompileDex ==
  /\ pc = "resolved"
  /\ NeedsDex
  /\ serverInstalled
  /\ result' = [result EXCEPT !.kotlinc = TRUE]
  /\ pc' = "compiling"
  /\ UNCHANGED <<fs, manifestFile, manifest, serverInstalled, dexQuery, cycle,
                 kotlinChangedFiles, response, waiting, errorLog, outcome,
                 start, prev>>

\* ------------------------------------------------- compiler driver (4.4)
\* What the toolchain service does with kotlinc/d8: on success every submitted
\* source file gets a dex artifact in dexOutDir, and data.dexList names them.
DriverDexList(files, srcDir) ==
  [i \in 1..Len(files) |-> DexName(Relative(srcDir, files[i]))]

DriverWrites(disk, files, srcDir, dexDir, stamp) ==
  [p \in DOMAIN disk |->
     IF \E i \in 1..Len(files) : p = resolve(dexDir, DexName(Relative(srcDir, files[i])))
     THEN stamp ELSE disk[p]]

\* line 257: the promise of compileDex(options, inputDir) resolves
CompileDexReturns(code, data, msg) ==
  /\ pc = "compiling"
  /\ IF code = 0 /\ data
     THEN /\ fs' = DriverWrites(fs, kotlinChangedFiles, kotlinSrcOutDir, kotlinDexOutDir, cycle)
          /\ response' = [code |-> code, data |-> TRUE, msg |-> msg,
                          dexList |-> DriverDexList(kotlinChangedFiles, kotlinSrcOutDir)]
     ELSE /\ fs' = fs
          /\ response' = [code |-> code, data |-> data, msg |-> msg, dexList |-> <<>>]
  /\ pc' = "resumed"
  /\ UNCHANGED <<manifestFile, manifest, serverInstalled, dexQuery, cycle, result,
                 kotlinChangedFiles, waiting, errorLog, outcome, start, prev>>

\* A success carries no message and a non-zero code carries one; a zero code
\* without data comes with or without a message.
CompileDexReturnsStep ==
  \E code \in {0, 1} : \E data \in BOOLEAN : \E msg \in BOOLEAN :
    /\ (code = 0 /\ data) => ~msg
    /\ code # 0 => msg
    /\ CompileDexReturns(code, data, msg)

\* The diagnostics listener built by createStderrListener: when the toolchain
\* writes to stderr the listener is called and stores its completion promise
\* in waiting.done; output may still arrive after compileDex has resolved.
StderrListenerStarts ==
  /\ pc \in {"compiling", "resumed", "awaiting", "done"}
  /\ result.kotlinc
  /\ waiting = "undefined"
  /\ waiting' = "pending"
  /\ UNCHANGED <<fs, manifestFile, manifest, serverInstalled, dexQuery, pc, cycle, result,
                 kotlinChangedFiles, response, errorLog, outcome, start, prev>>

StderrListenerFinishes ==
  /\ waiting = "pending"
  /\ waiting' = "resolved"
  /\ UNCHANGED <<fs, manifestFile, manifest, serverInstalled, dexQuery, pc, cycle, result,
                 kotlinChangedFiles, response, errorLog, outcome, start, prev>>

\* ------------------------------------------------ dex artifact mirror (4.2)
\* mutant: nothing is copied to the output directory
syncDexList_NoCopy(acc, dexList, dexDir, outDir) == acc

\* lines 192-196; acc = [fs, ok], ok = FALSE once a copySync has thrown
RECURSIVE syncDexList(_, _, _, _)
syncDexList(acc, dexList, dexDir, outDir) ==
  IF dexList = <<>> \/ ~acc.ok THEN acc
  ELSE LET dexFile == resolve(dexDir, Head(dexList))
           targetDexFile == resolve(outDir, Head(dexList))
       IN IF existsSync(acc.fs, dexFile)
          THEN syncDexList([acc EXCEPT !.fs = copySync(acc.fs, dexFile, targetDexFile)],
                           Tail(dexList), dexDir, outDir)
          ELSE [acc EXCEPT !.ok = FALSE]

\* mutant: a zero code without data counts as success
IsSuccess_CodeOnly(res) == res.code = 0

\* line 263
IsSuccess(res) == res.code = 0 /\ res.data

\* lines 263-284: the cycle is classified and runKotlinDev returns
Classify ==
  /\ pc' = "done"
  /\ IF IsSuccess(response)
     THEN LET synced == syncDexList([fs |-> fs, ok |-> TRUE], response.dexList,
                                    kotlinDexOutDir, outputDir)
          IN /\ result' = [result EXCEPT !.changed = response.dexList]
             /\ fs' = synced.fs
             /\ outcome' = IF synced.ok THEN "DexSuccess" ELSE "Fault"
             /\ UNCHANGED <<manifestFile, manifest, errorLog>>
     ELSE /\ IF Len(result.changed) > 0
             THEN /\ IF manifestFile
                     THEN manifest' = DeleteKeys(readKotlinManifestJson, result.changed)
                     ELSE manifest' = manifest
                  /\ result' = [result EXCEPT !.changed = <<>>]
             ELSE UNCHANGED <<manifest, result>>
          /\ errorLog' = response.msg
          /\ outcome' = "DexFailure"
          /\ UNCHANGED <<fs, manifestFile>>
  /\ UNCHANGED <<serverInstalled, dexQuery, cycle, kotlinChangedFiles, response, waiting,
                 start, prev>>

\* lines 259-261 with waiting.done unset: nothing is awaited
ResumeWithoutWaiting ==
  /\ pc = "resumed"
  /\ waiting = "undefined"
  /\ Classify

\* lines 259-260 with waiting.done set: await waiting.done
ResumeAndWait ==
  /\ pc = "resumed"
  /\ waiting # "undefined"
  /\ pc' = "awaiting"
  /\ UNCHANGED <<fs, manifestFile, manifest, serverInstalled, dexQuery, cycle, result,
                 kotlinChangedFiles, response, waiting, errorLog, outcome,
                 start, prev>>

\* line 260: the awaited promise has resolved
DoneAwaited ==
  /\ pc = "awaiting"
  /\ waiting = "resolved"
  /\ Classify

\* ------------------------------------------------------------ environment
BetweenCycles ==
  /\ pc \in {"idle", "done"}
  /\ pc' = "idle"
  /\ outcome' = "none"
  /\ result' = NoResult
  /\ prev' = NoPrev
  /\ ResetCycle
  /\ UNCHANGED <<manifestFile, manifest, cycle>>

\* the output directory is emptied (a fresh run of the dev server)
CleanOutputDir ==
  /\ \E f \in KotlinFiles : existsSync(fs, resolveDexByKotlinFile(outputDir, f))
  /\ BetweenCycles
  /\ fs' = [p \in DOMAIN fs |->
              IF \E f \in KotlinFiles : p = resolveDexByKotlinFile(outputDir, f)
              THEN 0 ELSE fs[p]]
  /\ start' = Snapshot(fs', readKotlinManifestJson)
  /\ UNCHANGED <<serverInstalled, dexQuery>>

\* the dex cache is evicted
ClearDexCache ==
  /\ \E f \in KotlinFiles : existsSync(fs, resolveDexByKotlinFile(kotlinDexOutDir, f))
  /\ BetweenCycles
  /\ fs' = [p \in DOMAIN fs |->
              IF \E f \in KotlinFiles : p = resolveDexByKotlinFile(kotlinDexOutDir, f)
              THEN 0 ELSE fs[p]]
  /\ start' = Snapshot(fs', readKotlinManifestJson)
  /\ UNCHANGED <<serverInstalled, dexQuery>>

\* the 'uniapp-runextension' service gets installed
InstallExtension ==
  /\ BetweenCycles
  /\ ~serverInstalled
  /\ serverInstalled' = TRUE
  /\ start' = Snapshot(fs, readKotlinManifestJson)
  /\ UNCHANGED <<fs, dexQuery>>

Next ==
  \/ BundleStep
  \/ ResolveChangeSet
  \/ SkipCompile
  \/ ThrowNotInstalled
  \/ CallCompileDex
  \/ CompileDexReturnsStep
  \/ StderrListenerStarts
  \/ StderrListenerFinishes
  \/ ResumeWithoutWaiting
  \/ ResumeAndWait
  \/ DoneAwaited
  \/ CleanOutputDir
  \/ ClearDexCache
  \/ InstallExtension

Spec == Init /\ [][Next]_vars

\* ================================================================ claims
DevOutcomes == {"Skipped", "ToolchainUnavailable", "DexSuccess", "DexFailure", "Fault"}

\* a development cycle has returned or thrown
DevCycleEnded == pc = "done" /\ outcome \in DevOutcomes

\* parseKotlinChangedFiles has returned in the current development cycle
ChangeSetResolved ==
  pc \in {"resolved", "compiling", "resumed", "awaiting"} \/ DevCycleEnded

\* the relative Kotlin files of the change set
ChangeSetFiles == {Relative(kotlinSrcOutDir, p) : p \in Range(kotlinChangedFiles)}

\* the files the resolver added because their cached dex artifact was missing
AddedForMissingDex == ChangeSetFiles \ Range(start.changed)

CachedAt(disk, f) == existsSync(disk, resolveDexByKotlinFile(kotlinDexOutDir, f))

OutputAt(disk, f) == existsSync(disk, resolveDexByKotlinFile(outputDir, f))

ManifestKeys == DOMAIN readKotlinManifestJson

\* ---- C1
\* C1 as stated: after a cycle whose driver call failed, the manifest has no
\* entry for any file of the change set submitted to the driver, the files
\* added for a missing dex artifact included.
C1_RollbackWholeChangeSet ==
  (DevCycleEnded /\ outcome = "DexFailure") =>
    \A f \in ChangeSetFiles : f \notin ManifestKeys

\* C1 amended: after a cycle whose driver call failed, the manifest has no
\* entry for any file of the transpiler's changed list, and the files that were
\* added to the change set only because their dex artifact was missing keep
\* the entry they had.
C1_RollbackChangedList ==
  (DevCycleEnded /\ outcome = "DexFailure") =>
    /\ \A f \in Range(start.changed) : f \notin ManifestKeys
    /\ \A f \in AddedForMissingDex :
         /\ f \in ManifestKeys <=> f \in DOMAIN start.manifest
         /\ f \in ManifestKeys => readKotlinManifestJson[f] = start.manifest[f]

C1_Witness ==
  /\ DevCycleEnded /\ outcome = "DexFailure"
  /\ start.recorded
  /\ \E f \in Range(start.changed) : f \in DOMAIN start.manifest /\ f \notin ManifestKeys
  /\ \E f \in AddedForMissingDex : f \in ManifestKeys

\* ---- C2
\* a development cycle that follows a DexSuccess with nothing touched in
\* between, an empty changed list and the same chunks
SecondRunWithoutChanges ==
  /\ ChangeSetResolved
  /\ prev.success
  /\ start.changed = <<>>
  /\ result.chunks = prev.chunks

\* C2: when a cycle ended in DexSuccess and the next cycle runs with nothing
\* touched in between, an empty changed list and the same chunks, the second
\* cycle's change set is empty, the driver is not invoked and the dex cache is
\* the same after the cycle as before it.
C2_Idempotence ==
  SecondRunWithoutChanges =>
    /\ kotlinChangedFiles = <<>>
    /\ pc \notin {"compiling", "resumed", "awaiting"}
    /\ ~result.kotlinc
    /\ DevCycleEnded => outcome = "Skipped"
    /\ \A f \in KotlinFiles :
         fs[resolveDexByKotlinFile(kotlinDexOutDir, f)]
           = start.fs[resolveDexByKotlinFile(kotlinDexOutDir, f)]

C2_Witness ==
  /\ SecondRunWithoutChanges
  /\ DevCycleEnded
  /\ result.chunks # <<>>
  /\ \A f \in {IndexKt} \cup Range(result.chunks) : CachedAt(fs, f)

\* ---- C3
\* the files of ['index.kt', ...chunks] that the transpiler did not report
\* and that had no cached dex artifact when the resolver ran
UnchangedWithoutDex ==
  {f \in {IndexKt} \cup Range(result.chunks) :
     f \notin Range(start.changed) /\ ~CachedAt(start.fs, f)}

\* C3 as stated: every such file is in the change set and is compiled (handed
\* to the compiler driver) in that cycle.
C3_AlwaysCompiled ==
  DevCycleEnded =>
    \A f \in UnchangedWithoutDex :
      /\ resolve(kotlinSrcOutDir, f) \in Range(kotlinChangedFiles)
      /\ result.kotlinc

\* C3 amended: every such file is in the change set, and it is handed to the
\* compiler driver in that cycle exactly when the entry Kotlin file exists on
\* disk and the toolchain service is available.
C3_CacheAuthority ==
  ChangeSetResolved =>
    \A f \in UnchangedWithoutDex :
      /\ resolve(kotlinSrcOutDir, f) \in Range(kotlinChangedFiles)
      /\ DevCycleEnded =>
           (result.kotlinc <=> (existsSync(fs, kotlinMainFile) /\ serverInstalled))

C3_Witness ==
  /\ DevCycleEnded
  /\ result.kotlinc
  /\ start.changed # <<>>
  /\ AKt \in UnchangedWithoutDex

\* ---- C4
\* C4: every file of the transpiler's changed list is in the change set, and
\* its cached dex artifact, if it had one, is gone from the dex cache when the
\* compiler driver is invoked.
C4_StaleInvalidation ==
  /\ ChangeSetResolved =>
       \A f \in Range(start.changed) :
         resolve(kotlinSrcOutDir, f) \in Range(kotlinChangedFiles)
  /\ pc \in {"resolved", "compiling"} =>
       \A f \in Range(start.changed) : ~CachedAt(fs, f)

C4_Witness ==
  /\ pc = "compiling"
  /\ \E f \in Range(start.changed) : CachedAt(start.fs, f)
  /\ \E f \in Range(start.changed) : ~CachedAt(start.fs, f)

\* ---- C5
\* C5: after a cycle that ended in DexSuccess every artifact of the driver's
\* dexList exists in the dex cache and, with the same content, in the output
\* directory.
C5_MirrorConsistency ==
  (DevCycleEnded /\ outcome = "DexSuccess") =>
    \A i \in 1..Len(response.dexList) :
      /\ existsSync(fs, resolve(kotlinDexOutDir, response.dexList[i]))
      /\ existsSync(fs, resolve(outputDir, response.dexList[i]))
      /\ fs[resolve(outputDir, response.dexList[i])]
           = fs[resolve(kotlinDexOutDir, response.dexList[i])]

C5_Witness ==
  /\ DevCycleEnded /\ outcome = "DexSuccess"
  /\ Len(response.dexList) = 2
  /\ \E f \in KotlinFiles : OutputAt(start.fs, f)

\* ---- C6
\* C6: a cycle that ends in DexFailure leaves every dex artifact that was in
\* the output directory at its start in place and with the same content.
C6_FailureKeepsOutput ==
  (DevCycleEnded /\ outcome = "DexFailure") =>
    \A f \in KotlinFiles :
      OutputAt(start.fs, f) =>
        fs[resolveDexByKotlinFile(outputDir, f)]
          = start.fs[resolveDexByKotlinFile(outputDir, f)]

C6_Witness ==
  /\ DevCycleEnded /\ outcome = "DexFailure"
  /\ \E f \in Range(start.changed) : OutputAt(start.fs, f) /\ CachedAt(start.fs, f)

\* ---- C7
\* C7: the driver's answer counts as success exactly when code is zero and
\* data is present; a failed cycle returns (it does not throw) with an empty
\* changed list, a successful one returns the driver's dexList as changed list.
C7_FailureSemantics ==
  (pc = "done" /\ result.kotlinc) =>
    IF response.code = 0 /\ response.data
    THEN /\ outcome \in {"DexSuccess", "Fault"}
         /\ outcome = "DexSuccess" => result.changed = response.dexList
    ELSE /\ outcome = "DexFailure"
         /\ result.changed = <<>>

C7_Witness ==
  /\ pc = "done" /\ outcome = "DexFailure"
  /\ response.code = 0 /\ ~response.data
  /\ start.changed # <<>>

\* ---- C8
\* every path with a manifest entry has a dex artifact in the dex cache
ManifestHasDex(m, disk) == \A f \in DOMAIN m : CachedAt(disk, f)

\* the premise of C8: consistent at the start of the cycle, and the transpiler
\* recorded a manifest entry for each file it reported
C8_Premise ==
  /\ ManifestHasDex(start.manifest, start.fs)
  /\ start.changed # <<>> => start.recorded

\* C8 as stated: the manifest is consistent with the dex cache at the end of
\* every development cycle, whichever way it ends.
C8_ManifestConsistentAlways ==
  (DevCycleEnded /\ C8_Premise) => ManifestHasDex(readKotlinManifestJson, fs)

\* C8 amended: the manifest is consistent with the dex cache at the end of
\* every development cycle in which the compiler driver was invoked (DexSuccess
\* or DexFailure) or the transpiler reported no changed file.
C8_ManifestConsistent ==
  (DevCycleEnded /\ C8_Premise /\ (result.kotlinc \/ start.changed = <<>>)) =>
    ManifestHasDex(readKotlinManifestJson, fs)

C8_Witness ==
  /\ DevCycleEnded /\ C8_Premise
  /\ outcome = "DexFailure"
  /\ start.changed # <<>>
  /\ start.manifest # EmptyManifest
  /\ ManifestKeys # {}

\* ---- C9
\* C9: once a cycle that invoked the compiler driver has been classified and
\* has returned, the diagnostics listener is not still running.
C9_ListenerAwaited ==
  (pc = "done" /\ outcome \in {"DexSuccess", "DexFailure"}) => waiting # "pending"

\* ---- C10
\* C10: with the toolchain service unavailable the compiler driver is never
\* invoked and the kotlinc flag stays unset, and the cycle ends with the
\* extension-not-installed error exactly when the change set is non-empty and
\* the entry Kotlin file exists.
C10_ToolchainUnavailable ==
  ~serverInstalled =>
    /\ pc \notin {"compiling", "resumed", "awaiting"}
    /\ ~result.kotlinc
    /\ response = NoResponse
    /\ DevCycleEnded =>
         (outcome = "ToolchainUnavailable"
            <=> (Len(kotlinChangedFiles) > 0 /\ existsSync(fs, kotlinMainFile)))
    /\ DevCycleEnded => outcome \in {"ToolchainUnavailable", "Skipped"}

C10_Witness ==
  /\ ~serverInstalled
  /\ DevCycleEnded /\ outcome = "ToolchainUnavailable"
  /\ cycle = 2

\* ------------------------------------------- one cycle from any disk
\* runKotlinDev up to the call of the compiler driver, started on every
\* transpiler result and every state of the disk: the lists may repeat a file
\* and the chunks may name index.kt or a file of the changed list; an artifact
\* in the output directory (stamp 2) need not be the cached one (stamp 1).
MaxChanged == 2
MaxChunks == 2

SeqsUpTo(S, n) == UNION {[1..k -> S] : k \in 0..n}

DiskOf(cached, mirrored, sources) ==
  [p \in Paths |->
     IF \E f \in cached : p = resolveDexByKotlinFile(kotlinDexOutDir, f)
       THEN 1
     ELSE IF \E f \in mirrored : p = resolveDexByKotlinFile(outputDir, f)
       THEN 2
     ELSE IF \E f \in sources : p = resolve(kotlinSrcOutDir, f)
       THEN 1
     ELSE 0]

InitResolver ==
  /\ \E cached \in SUBSET KotlinFiles, mirrored \in SUBSET KotlinFiles,
        sources \in {{}, {IndexKt}} :
       fs = DiskOf(cached, mirrored, sources)
  /\ manifestFile = FALSE
  /\ manifest = EmptyManifest
  /\ serverInstalled \in BOOLEAN
  /\ pc = "bundled"
  /\ cycle = 1
  /\ \E changed \in SeqsUpTo(KotlinFiles, MaxChanged),
        chunks \in SeqsUpTo(KotlinFiles, MaxChunks) :
       result = [filename |-> IndexKt, changed |-> changed, chunks |-> chunks,
                 kotlinc |-> FALSE, type |-> "none"]
  /\ kotlinChangedFiles = <<>>
  /\ response = NoResponse
  /\ waiting = "undefined"
  /\ errorLog = FALSE
  /\ outcome = "running"
  /\ start = [fs |-> fs, manifest |-> EmptyManifest, manifestFile |-> FALSE,
              kind |-> "dev", changed |-> result.changed, recorded |-> FALSE]
  /\ prev = NoPrev
  /\ dexQuery = NoQuery

NextResolver ==
  \/ ResolveChangeSet
  \/ SkipCompile
  \/ ThrowNotInstalled
  \/ CallCompileDex

SpecResolver == InitResolver /\ [][NextResolver]_vars

\* ------------------------------------- resolveDexByKotlinFile on any path
\* resolveDexByKotlinFile applied once to a base directory and a relative
\* Kotlin file.  A path is a sequence of name pieces, with ".kt" a piece of
\* its own wherever the text occurs: the base directory has up to MaxDirDepth
\* segments, the file lies up to MaxFileDepth directories below it, and the
\* name of a directory may contain ".kt" ("d.kt").
MaxDirDepth == 2
MaxFileDepth == 2

DirSegments == {<<"d">>, <<"d", ".kt">>}

RECURSIVE DirPaths(_)
DirPaths(n) ==
  IF n = 0 THEN {}
  ELSE DirSegments
         \cup {resolve(d, seg) : d \in DirPaths(n - 1), seg \in DirSegments}

QueryDirs == DirPaths(MaxDirDepth)

QueryFiles ==
  KotlinFiles
    \cup {resolve(d, f) : d \in DirPaths(MaxFileDepth), f \in KotlinFiles}

InitDexPath ==
  /\ fs = [p \in Paths |-> 0]
  /\ manifestFile = FALSE
  /\ manifest = EmptyManifest
  /\ serverInstalled = TRUE
  /\ pc = "idle"
  /\ cycle = 0
  /\ result = NoResult
  /\ kotlinChangedFiles = <<>>
  /\ response = NoResponse
  /\ waiting = "undefined"
  /\ errorLog = FALSE
  /\ outcome = "none"
  /\ start = Snapshot(fs, manifest)
  /\ prev = NoPrev
  /\ \E dir \in QueryDirs, file \in QueryFiles :
       dexQuery = [kotlinDexOutDir |-> dir, kotlinFile |-> file, dexFile |-> <<>>]

CallResolveDex ==
  /\ dexQuery.kotlinFile # <<>>
  /\ dexQuery.dexFile = <<>>
  /\ dexQuery' = [dexQuery EXCEPT !.dexFile =
                    resolveDexByKotlinFile(dexQuery.kotlinDexOutDir,
                                           dexQuery.kotlinFile)]
  /\ UNCHANGED <<fs, manifestFile, manifest, serverInstalled, pc, cycle, result,
                 kotlinChangedFiles, response, waiting, errorLog, outcome,
                 start, prev>>

NextDexPath == CallResolveDex

SpecDexPath == InitDexPath /\ [][NextDexPath]_vars

\* ---- C11
\* the dex cache and the output directory as the resolver, the driver and the
\* mirror can change them
ArtifactPaths ==
  {resolveDexByKotlinFile(kotlinDexOutDir, f) : f \in KotlinFiles}
    \cup {resolveDexByKotlinFile(outputDir, f) : f \in KotlinFiles}

\* C11: when the transpiler returns an error compileApp ends with the
\* syntax-error report, when it returns no result compileApp returns nothing,
\* and in both cases the change set resolver and the compiler driver are not
\* run and the manifest, the dex cache and the output directory are as they
\* were when compileApp was called.
C11_TranspilerFailureStopsCycle ==
  (pc # "idle" /\ start.kind \in {"error", "absent"}) =>
    /\ pc = "done"
    /\ outcome = (IF start.kind = "error" THEN "SyntaxError" ELSE "NoResult")
    /\ kotlinChangedFiles = <<>>
    /\ result.type = "none" /\ ~result.kotlinc
    /\ response = NoResponse
    /\ manifestFile = start.manifestFile
    /\ readKotlinManifestJson = start.manifest
    /\ \A p \in ArtifactPaths : fs[p] = start.fs[p]

C11_Witness ==
  /\ pc = "done" /\ start.kind = "error" /\ outcome = "SyntaxError"
  /\ cycle = 2
  /\ ManifestKeys # {}
  /\ CachedAt(fs, IndexKt) /\ OutputAt(fs, IndexKt)

\* ---- C12
\* C12: for every transpiler result, one whose changed list or chunks list
\* repeats an entry or whose chunks name index.kt or a file of the changed list
\* included, the change set returned by parseKotlinChangedFiles holds no path
\* more than once.
C12_NoPathTwice ==
  pc = "resolved" =>
    \A i, j \in 1..Len(kotlinChangedFiles) :
      kotlinChangedFiles[i] = kotlinChangedFiles[j] => i = j

\* ---- C13
\* the resolver has returned for an empty changed list and the chunks [a.kt],
\* and a.kt had no cached dex artifact
OnlyChunkWithoutDex ==
  /\ pc = "resolved"
  /\ start.changed = <<>>
  /\ result.chunks = <<AKt>>
  /\ ~CachedAt(start.fs, AKt)

\* C13 as stated: when the changed list is empty, the chunks are [a.kt] and
\* a.kt has no cached dex artifact, the change set is exactly the one-element
\* sequence of the resolved path of a.kt.
C13_OnlyTheChunk ==
  OnlyChunkWithoutDex => kotlinChangedFiles = <<resolve(kotlinSrcOutDir, AKt)>>

\* C13 amended: under the same conditions the change set is the one-element
\* sequence of a.kt when index.kt has a cached dex artifact, and the
\* two-element sequence of index.kt followed by a.kt when it has none.
C13_ChunkAndEntryFile ==
  OnlyChunkWithoutDex =>
    kotlinChangedFiles =
      (IF CachedAt(start.fs, IndexKt)
       THEN <<resolve(kotlinSrcOutDir, AKt)>>
       ELSE <<resolve(kotlinSrcOutDir, IndexKt), resolve(kotlinSrcOutDir, AKt)>>)

C13_Witness ==
  /\ OnlyChunkWithoutDex
  /\ CachedAt(start.fs, IndexKt)
  /\ kotlinChangedFiles = <<resolve(kotlinSrcOutDir, AKt)>>

\* ---- C14
\* the resolver has returned in a development cycle that directly follows a
\* DexFailure, nothing on disk was touched in between (so the transpiler saw
\* the same sources and reports the same chunks), and the transpiler reported
\* as changed every file of the failed change set whose manifest entry was
\* missing when the cycle began
RetryAfterFailure ==
  /\ ChangeSetResolved
  /\ prev.failure
  /\ result.chunks = prev.chunks
  /\ \A f \in prev.files :
       f \notin DOMAIN start.manifest => f \in Range(start.changed)

\* C14: after a DexFailure, every file of the failed cycle's attempted change
\* set is again in the change set of the next development cycle, when that
\* cycle's transpiler reports as changed the files whose manifest entry is
\* missing or out of date and the file system was not touched in between.
C14_FailedFilesRetried ==
  RetryAfterFailure =>
    \A f \in prev.files : resolve(kotlinSrcOutDir, f) \in Range(kotlinChangedFiles)

C14_Witness ==
  /\ RetryAfterFailure
  /\ DevCycleEnded
  /\ start.manifestFile
  /\ prev.files = KotlinFiles
  /\ prev.chunks # <<>>
  /\ ChangeSetFiles = KotlinFiles

\* ---- C15
\* the dispatch of runKotlinDev has been taken: the driver was called, the
\* cycle was skipped, or it ended with the extension-not-installed error
Dispatched == pc \in {"compiling", "done"}

\* C15: the compiler driver is invoked in a cycle if and only if the change set
\* is non-empty and the entry Kotlin file exists (and the toolchain service is
\* available); compilation is skipped whenever the change set is empty or the
\* entry file does not exist, in particular when both hold, and a skipped
\* cycle returns the result with the transpiler's changed list unmodified.
C15_DriverGuard ==
  Dispatched =>
    /\ pc = "compiling"
         <=> (/\ Len(kotlinChangedFiles) > 0
              /\ existsSync(fs, kotlinMainFile)
              /\ serverInstalled)
    /\ result.kotlinc <=> pc = "compiling"
    /\ outcome = "Skipped"
         <=> ~(Len(kotlinChangedFiles) > 0 /\ existsSync(fs, kotlinMainFile))
    /\ (kotlinChangedFiles = <<>> /\ ~existsSync(fs, kotlinMainFile))
         => outcome = "Skipped"
    /\ outcome = "Skipped" =>
         /\ result.changed = start.changed
         /\ response = NoResponse

C15_Witness ==
  /\ pc = "done" /\ outcome = "Skipped"
  /\ kotlinChangedFiles = <<>>
  /\ ~existsSync(fs, kotlinMainFile)
  /\ Len(result.changed) = 0
  /\ result.chunks # <<>>

\* both branches of the guard are taken: a cycle that called the driver
C15_WitnessInvoked ==
  /\ pc = "compiling"
  /\ Len(kotlinChangedFiles) > 1
  /\ result.changed # <<>>

\* ---- C16
\* the compiler driver has been called in the current cycle
DriverInvoked ==
  \/ pc \in {"compiling", "resumed", "awaiting"}
  \/ pc = "done" /\ outcome \in {"DexSuccess", "DexFailure", "Fault"}

\* C16: the kotlinc flag of the result is true exactly when the compiler
\* driver was invoked in the cycle: it is set when the driver is called and
\* stays set while the driver runs and after DexSuccess and after DexFailure,
\* and it is unset in every cycle that did not call the driver.
C16_KotlincFlag ==
  /\ result.kotlinc <=> DriverInvoked
  /\ (pc = "done" /\ outcome \in {"DexSuccess", "DexFailure"}) => result.kotlinc
  /\ (pc = "done" /\ outcome \in {"Skipped", "ToolchainUnavailable"}) => ~result.kotlinc

C16_Witness ==
  /\ pc = "done" /\ outcome = "DexFailure"
  /\ result.kotlinc
  /\ result.changed = <<>>
  /\ cycle = 2

\* ---- C17
\* the files of ['index.kt', ...chunks] that the transpiler did not report as
\* changed and that had a cached dex artifact when the resolver was called
UnchangedWithDex ==
  {f \in {IndexKt} \cup Range(result.chunks) :
     f \notin Range(start.changed) /\ CachedAt(start.fs, f)}

\* C17: for every file of index.kt and the chunks that is not in the changed
\* list and has a cached dex artifact, the resolver leaves the file out of the
\* change set and leaves the cached artifact as it is, and after the resolver
\* the output directory holds an artifact for the file: the copy of the cached
\* one if it held none before, the one it held before otherwise.
C17_CachedChunkMirrored ==
  pc = "resolved" =>
    \A f \in UnchangedWithDex :
      LET cached == resolveDexByKotlinFile(kotlinDexOutDir, f)
          target == resolveDexByKotlinFile(outputDir, f)
      IN /\ resolve(kotlinSrcOutDir, f) \notin Range(kotlinChangedFiles)
         /\ fs[cached] = start.fs[cached]
         /\ existsSync(fs, target)
         /\ fs[target] = (IF existsSync(start.fs, target)
                          THEN start.fs[target] ELSE start.fs[cached])

C17_Witness ==
  /\ pc = "resolved"
  /\ UnchangedWithDex = KotlinFiles
  /\ ~OutputAt(start.fs, IndexKt) /\ OutputAt(fs, IndexKt)
  /\ OutputAt(start.fs, AKt)
  /\ start.fs[resolveDexByKotlinFile(outputDir, AKt)]
       # start.fs[resolveDexByKotlinFile(kotlinDexOutDir, AKt)]

\* ---- C18
\* the manifest as the transpiler left it, before the driver was called
ManifestBeforeDriver ==
  IF start.recorded
  THEN RecordManifest(start.manifest, start.changed, cycle)
  ELSE start.manifest

\* C18: on DexFailure the rollback changes nothing else: every manifest entry
\* whose path is not among the rolled-back files keeps its token, and when no
\* manifest file existed before the failure none is created.
C18_RollbackFrame ==
  (DevCycleEnded /\ outcome = "DexFailure") =>
    /\ \A f \in (DOMAIN ManifestBeforeDriver) \ Range(start.changed) :
         /\ f \in ManifestKeys
         /\ readKotlinManifestJson[f] = ManifestBeforeDriver[f]
    /\ ManifestKeys \subseteq DOMAIN ManifestBeforeDriver
    /\ manifestFile <=> (start.manifestFile \/ start.recorded)

C18_Witness ==
  /\ DevCycleEnded /\ outcome = "DexFailure"
  /\ start.changed # <<>>
  /\ \E f \in DOMAIN start.manifest :
       /\ f \notin Range(start.changed)
       /\ f \in ManifestKeys
       /\ \E g \in Range(start.changed) : g \in DOMAIN start.manifest

\* the other half of the frame: a failure without any manifest file
C18_WitnessNoManifest ==
  /\ DevCycleEnded /\ outcome = "DexFailure"
  /\ start.changed # <<>>
  /\ ~start.manifestFile /\ ~start.recorded
  /\ ~manifestFile

\* ---- C19
\* the files the chunk loop looks at, in its order
Candidates == <<IndexKt>> \o result.chunks

\* the candidate at position i is appended: it is not in the changed list, it
\* had no cached dex artifact, and it did not occur at an earlier position
Appended(i) ==
  /\ Candidates[i] \notin Range(start.changed)
  /\ ~CachedAt(start.fs, Candidates[i])
  /\ \A j \in 1..(i - 1) : Candidates[j] # Candidates[i]

\* the resolved paths of the appended candidates from position i on
RECURSIVE AppendedFrom(_)
AppendedFrom(i) ==
  IF i > Len(Candidates) THEN <<>>
  ELSE (IF Appended(i) THEN <<resolve(kotlinSrcOutDir, Candidates[i])>> ELSE <<>>)
         \o AppendedFrom(i + 1)

\* C19: the change set is the resolved paths of the changed list in their
\* order, followed by the resolved paths of the files of [index.kt, chunks...]
\* that are not already included and have no cached dex artifact, in that
\* order, and holds no other path.
C19_ChangeSetContents ==
  pc = "resolved" =>
    kotlinChangedFiles =
      [i \in 1..Len(start.changed) |-> resolve(kotlinSrcOutDir, start.changed[i])]
        \o AppendedFrom(1)

C19_Witness ==
  /\ pc = "resolved"
  /\ start.changed = <<AKt>>
  /\ result.chunks = <<AKt, IndexKt>>
  /\ ~CachedAt(start.fs, IndexKt)
  /\ kotlinChangedFiles = <<resolve(kotlinSrcOutDir, AKt), resolve(kotlinSrcOutDir, IndexKt)>>

\* ---- C20
\* the relative path without its trailing ".kt"
WithoutExtension(kotlinFile) == SubSeq(kotlinFile, 1, Len(kotlinFile) - 1)

\* C20: for every base directory and every relative path that ends in .kt,
\* resolveDexByKotlinFile returns the base directory joined with the path
\* without its trailing .kt, joined with classes.dex, also when the base
\* directory or an inner segment of the path contains the text ".kt"; so the
\* value always begins with the base directory.
C20_DexPathUnderBaseDir ==
  dexQuery.dexFile # <<>> =>
    /\ dexQuery.dexFile =
         join(resolve(dexQuery.kotlinDexOutDir,
                      WithoutExtension(dexQuery.kotlinFile)), "classes.dex")
    /\ SubSeq(dexQuery.dexFile, 1, Len(dexQuery.kotlinDexOutDir))
         = dexQuery.kotlinDexOutDir

====
